---- MODULE Spec2Model ----
(***************************************************************************)
(* Model of src/App.jsx: the staircase dimensioning engine                 *)
(* (calculateStairs), the norm checker (checkNorms) and the part of the    *)
(* App component that calls them (compute, exportPDF, the form fields).    *)
(*                                                                         *)
(* Numbers.  Lengths are millimetres.  The form fields and the arguments   *)
(* of calculateStairs are integers (the optional arguments may also be the *)
(* JavaScript value undefined).  The fields of a geometry record are the   *)
(* numbers produced by toFixed(1), held as integers in TENTHS: riser =     *)
(* 1688 is the JavaScript number 168.8.  The riser before rounding is the  *)
(* fraction <<rise, steps>>.  For arguments below 2^31 the binary64        *)
(* arithmetic of JavaScript agrees with the exact arithmetic used here: a  *)
(* quotient of two such integers is never nearer than 2^-31 to 120, 210 or *)
(* a rounding boundary of Math.round, far more than one unit in the last   *)
(* place.  The one place where binary64 is visible at this size is a       *)
(* toFixed(1) tie, and ToFixed1Quot / ToFixed1Rule compute its direction   *)
(* from the binary expansion.  Arguments of large magnitude are modelled   *)
(* separately, with binary64 rounding on multi-limb integers (EnterWide .. *)
(* SpecWide).                                                              *)
(***************************************************************************)
EXTENDS Integers, Sequences, FiniteSets, TLC

VARIABLES
  totalRise,      \* App state / argument of calculateStairs
  desiredRiser,   \* App state / argument
  desiredTread,   \* App state / argument
  stairType,      \* App state / argument
  landingDepth,   \* App state / argument
  result,         \* App state: the geometry record, or Null
  warnings,       \* App state: sequence of warning messages
  pdfs,           \* number of PDF files exportPDF has produced
  exporting,      \* number of exportPDF calls waiting in an await
  alerts,         \* number of alert() dialogs exportPDF has shown
  pc,             \* position inside calculateStairs
  rise,           \* local of calculateStairs
  steps,          \* local of calculateStairs
  riser,          \* local of calculateStairs: the fraction <<rise, steps>>
  ranA,           \* history: loop A has incremented steps in this call
  ranB,           \* history: loop B has decremented steps in this call
  tick            \* history: parity of the loop iterations of this call

vars == <<totalRise, desiredRiser, desiredTread, stairType, landingDepth,
          result, warnings, pdfs, exporting, alerts,
          pc, rise, steps, riser, ranA, ranB, tick>>

\* result before the first computation (useState(null))
Null == <<>>

\* An optional argument of calculateStairs is the JavaScript value undefined,
\* written Absent, or a number n, written Num(n).
Absent == <<>>
Num(n) == <<n>>

\* The text of a numeric form field is empty or the numeral of an integer n,
\* written Text(n).  useState(2700) holds the number itself, which Number()
\* and the input element treat like its numeral.
EmptyField == <<>>
Text(n) == <<n>>

----------------------------------------------------------------------------
(* Bounds of the explored inputs *)

MaxDenseRise == 700
HighRiseSpan == 320
MaxExports == 2
MaxMantissa == 250

(* Program constants *)
MinRise == 10
DefaultRiser == 170
MinRiser == 120
MaxRiser == 210
MaxSteps == 200
RuleSum == 600
MinTread == 160
MaxTread == 400
SpiralTread == 240
DefaultLanding == 900

----------------------------------------------------------------------------
(* JavaScript primitives *)

Max(a, b) == IF a >= b THEN a ELSE b
Min(a, b) == IF a <= b THEN a ELSE b

clamp(v, a, b) == Max(a, Min(b, v))

\* the truth value of an optional number in x || y and x && y
Truthy(v) == v # Absent /\ v[1] # 0

\* Number(v) for the text of a form field: the empty string is 0
ToNumber(v) == IF v = EmptyField THEN 0 ELSE v[1]

\* Math.round(n / d) for n >= 0, d > 0: the nearest integer, a half goes up
RoundDiv(n, d) == (2 * n + d) \div (2 * d)

\* 2^k for k in 0 .. 17
Pow2(k) ==
  <<1, 2, 4, 8, 16, 32, 64, 128, 256, 512, 1024, 2048, 4096, 8192, 16384,
    32768, 65536, 131072>>[k + 1]

\* 2^k modulo m
RECURSIVE Pow2Mod(_, _)
Pow2Mod(k, m) == IF k = 0 THEN 1 % m ELSE (2 * Pow2Mod(k - 1, m)) % m

\* the binary exponent of n / d >= 1: the e with 2^e <= n / d < 2^(e+1)
RECURSIVE Log2Floor(_, _)
Log2Floor(n, d) == IF n < 2 * d THEN 0 ELSE 1 + Log2Floor(n, 2 * d)

(* Fractions <<numerator, denominator>>, denominator > 0 *)
FLess(a, b) == a[1] * b[2] < b[1] * a[2]
FMin(a, b) == IF FLess(b, a) THEN b ELSE a
FMax(a, b) == IF FLess(a, b) THEN b ELSE a
FClamp(v, a, b) == FMax(<<a, 1>>, FMin(<<b, 1>>, v))

----------------------------------------------------------------------------
(* Number.prototype.toFixed(1), read back with unary +, in tenths.          *)
(* toFixed rounds the exact value of the double to the nearest tenth and    *)
(* takes the larger tenth on a tie.  Off a tie of the exact quotient the    *)
(* double and the quotient round alike.  On a tie (the quotient is n/20 or  *)
(* n/40 with n odd) the double d nearest the quotient v decides: the upper  *)
(* tenth exactly when the double is not below the tie.  With k = 52 - e     *)
(* and e the binary exponent of v, d * 2^k is v * 2^k rounded to an         *)
(* integer, so the residue of n * 2^k tells on which side of v it lies.     *)

\* +(rise / steps).toFixed(1)
ToFixed1Quot(n, d) ==
  LET q == (10 * n) \div d
      r == (10 * n) % d
      N == (20 * n) \div d
      f == ((N % 20) * Pow2Mod(52 - Log2Floor(n, d), 20)) % 20
  IN  IF 2 * r < d THEN q
      ELSE IF 2 * r > d THEN q + 1
      ELSE IF f = 0 \/ f > 10 THEN q + 1 ELSE q

\* +(600 - 2 * (rise / steps)).toFixed(1) for a quotient in (100, 220).
\* 2 * d is exact; 600 - 2 * d is exact when d >= 128 and is rounded to a
\* multiple of 2^-44 (ties to even) when d < 128, where d is a multiple of
\* 2^-46.
ToFixed1Rule(n, d) ==
  LET num == 10 * (RuleSum * d - 2 * n)
      q == num \div d
      r == num % d
      N == (40 * n) \div d
      e == Log2Floor(n, d)
      g == ((N % 160) * Pow2Mod(52 - e, 160)) % 160
      f == g % 40
      D4 == ((g \div 40) + (IF f > 20 THEN 1 ELSE 0)) % 4
  IN  IF 2 * r < d THEN q
      ELSE IF 2 * r > d THEN q + 1
      ELSE IF e >= 7 \/ D4 % 2 = 0 THEN (IF f < 20 THEN q + 1 ELSE q)
      ELSE IF D4 = 1 THEN q + 1 ELSE q

----------------------------------------------------------------------------
(* Math.sqrt(totalRun*totalRun + rise*rise), then toFixed(1).  The sum of   *)
(* squares exceeds 2^31, so it is held in two words <<high, low>> of base   *)
(* 10^8.  The root of an integer is never on a toFixed tie, and it is       *)
(* further than 10^-7 from one, so the tenths are those of the exact root.  *)

WordBase == 100000000

\* p * p for 0 <= p < 4 * 10^8
DSquare(p) ==
  LET ph == p \div 10000
      pl == p % 10000
      mid == 2 * ph * pl
      low == (mid % 10000) * 10000 + pl * pl
  IN  <<ph * ph + mid \div 10000 + low \div WordBase, low % WordBase>>

DAdd(a, b) ==
  <<a[1] + b[1] + (a[2] + b[2]) \div WordBase, (a[2] + b[2]) % WordBase>>

DLeq(a, b) == a[1] < b[1] \/ (a[1] = b[1] /\ a[2] <= b[2])

\* the largest u in lo .. hi-1 with u * u <= t, given lo * lo <= t < hi * hi
RECURSIVE RootSearch(_, _, _)
RootSearch(lo, hi, t) ==
  IF hi - lo <= 1 THEN lo
  ELSE LET mid == (lo + hi) \div 2
       IN  IF DLeq(DSquare(mid), t) THEN RootSearch(mid, hi, t)
           ELSE RootSearch(lo, mid, t)

\* mutant of HypotTenths: the run squared twice, the rise forgotten
HypotTenths_RunTwice(run, r) ==
  LET t == DAdd(DSquare(20 * run), DSquare(20 * run))
      u == RootSearch(20 * run, 40 * run + 1, t)
  IN  (u + 1) \div 2

\* +Math.sqrt(run*run + rise*rise).toFixed(1): u = floor(20 * root), and
\* the nearest tenth is floor((u + 1) / 2)
HypotTenths(run, r) ==
  LET t == DAdd(DSquare(20 * run), DSquare(20 * r))
      u == RootSearch(20 * Max(run, r), 20 * (run + r) + 1, t)
  IN  (u + 1) \div 2

----------------------------------------------------------------------------
(* Math.atan2(rise, totalRun) * 180 / Math.PI, then toFixed(1).  The angle  *)
(* is computed by CORDIC rotations on the vector scaled to about 2^29, in   *)
(* units of 2^-24 degree, followed by the first-order term of the residual  *)
(* angle; the result is within 10^-6 degree of the angle.                   *)

AngleUnit == 16777216

\* atan(2^-i) in units of 2^-24 degree, i = 0 .. 15
AtanTable ==
  <<754974720, 445687602, 235489088, 119537938, 60000934, 30029717,
    15018523, 7509720, 3754917, 1877466, 938734, 469367, 234684, 117342,
    58671, 29335>>

\* 180 / pi in units of 2^-24 degree per 2^-16
DegPerRad == 14668

VectorScale == 600000000

\* v / 2^i rounded to the nearest integer
RoundShift(v, i) == IF i = 0 THEN v ELSE (v + Pow2(i - 1)) \div Pow2(i)

RECURSIVE Cordic(_, _, _, _)
Cordic(x, y, z, i) ==
  IF i = Len(AtanTable)
  THEN z + (y * DegPerRad + RoundShift(x, 17)) \div RoundShift(x, 16)
  ELSE IF y >= 0
       THEN Cordic(x + RoundShift(y, i), y - RoundShift(x, i),
                   z + AtanTable[i + 1], i + 1)
       ELSE Cordic(x - RoundShift(y, i), y + RoundShift(x, i),
                   z - AtanTable[i + 1], i + 1)

\* +(Math.atan2(rise, run) * 180 / Math.PI).toFixed(1) for rise, run > 0
AngleTenths(r, run) ==
  LET s == VectorScale \div Max(r, run)
      z == Cordic(run * s, r * s, 0, 0)
  IN  10 * (z \div AngleUnit)
        + (10 * (z % AngleUnit) + AngleUnit \div 2) \div AngleUnit

----------------------------------------------------------------------------
(* calculateStairs, lines 55-75 *)

StairTypes == {"straight", "l", "u", "spiral"}

\* line 56
EffectiveRise(tr) == Max(MinRise, tr)

\* lines 57-58
TargetRiser(dr) ==
  clamp(IF Truthy(dr) THEN dr[1] ELSE DefaultRiser, MinRiser, MaxRiser)

\* lines 59-60
InitialSteps(r, target) ==
  LET s == RoundDiv(r, target) IN IF s < 1 THEN 1 ELSE s

\* mutant of LoopACond: the limit 220 in place of 210
LoopACond_220(rr, s) == FLess(<<220, 1>>, rr) /\ s < MaxSteps

\* line 62, the condition: riser > 210 && steps < 200
LoopACond(rr, s) == FLess(<<MaxRiser, 1>>, rr) /\ s < MaxSteps

\* mutant of LoopBCond: the limit 150 in place of 120
LoopBCond_150(rr, s) == FLess(rr, <<150, 1>>) /\ s > 1

\* line 63, the condition: riser < 120 && steps > 1
LoopBCond(rr, s) == FLess(rr, <<MinRiser, 1>>) /\ s > 1

\* line 62, the body
LoopABody(s) == s + 1

\* mutant of LoopBBody: steps = 1 in place of steps -= 1
LoopBBody_Reset(s) == 1

\* line 63, the body
LoopBBody(s) == s - 1

\* line 62, the whole loop
RECURSIVE LoopA(_, _)
LoopA(r, s) == IF LoopACond(<<r, s>>, s) THEN LoopA(r, LoopABody(s)) ELSE s

\* line 63, the whole loop
RECURSIVE LoopB(_, _)
LoopB(r, s) == IF LoopBCond(<<r, s>>, s) THEN LoopB(r, LoopBBody(s)) ELSE s

\* lines 56-63: the step count the loops leave
FinalSteps(tr, dr) ==
  LET r == EffectiveRise(tr)
  IN  LoopB(r, LoopA(r, InitialSteps(r, TargetRiser(dr))))

\* mutant of RuleTread: 600 - riser, the factor 2 forgotten
RuleTread_NoDouble(rr) == <<RuleSum * rr[2] - rr[1], rr[2]>>

\* line 64
RuleTread(rr) == <<RuleSum * rr[2] - 2 * rr[1], rr[2]>>

\* line 65
ChosenTread(rr, dt) == IF Truthy(dt) THEN <<dt[1], 1>> ELSE RuleTread(rr)

\* line 66
ClampTread(t) == FClamp(t, MinTread, MaxTread)

\* mutant of SpiralCap: the type compared with a misspelt name
SpiralCap_Typo(t, st) ==
  IF st = "Spiral" THEN FMin(t, <<SpiralTread, 1>>) ELSE t

\* line 67
SpiralCap(t, st) ==
  IF st = "spiral" THEN FMin(t, <<SpiralTread, 1>>) ELSE t

\* lines 64-67: the tread before rounding, a fraction
Tread(rr, dt, st) == SpiralCap(ClampTread(ChosenTread(rr, dt)), st)

\* mutant of LandingExtra: landingDepth >= 0 in place of > 0
LandingExtra_ZeroOK(st, ld) ==
  IF st = "l" \/ st = "u"
  THEN (IF ld # Absent /\ ld[1] >= 0 THEN ld[1] ELSE DefaultLanding)
  ELSE 0

\* line 69: what is added to the total run
LandingExtra(st, ld) ==
  IF st = "l" \/ st = "u"
  THEN (IF Truthy(ld) /\ ld[1] > 0 THEN ld[1] ELSE DefaultLanding)
  ELSE 0

\* lines 68-69: the total run before rounding; tread * steps is an integer
\* for integer arguments
TotalRun(rr, s, dt, st, ld) ==
  LET t == Tread(rr, dt, st)
  IN  (t[1] * s) \div t[2] + LandingExtra(st, ld)

\* line 73, +tread.toFixed(1)
TreadTenths(rr, dt, st) ==
  LET t == Tread(rr, dt, st)
  IN  IF t[2] = 1 THEN 10 * t[1] ELSE ToFixed1Rule(rr[1], rr[2])

\* lines 64-74: the record returned for the locals the loops leave
Geometry(r, s, rr, dt, st, ld) ==
  LET run == TotalRun(rr, s, dt, st, ld)
  IN  [steps |-> s,
       riser |-> ToFixed1Quot(rr[1], rr[2]),
       tread |-> TreadTenths(rr, dt, st),
       totalRun |-> 10 * run,
       stringerLength |-> HypotTenths(run, r),
       angleDeg |-> AngleTenths(r, run)]

\* lines 55-75
calculateStairs(tr, dr, dt, st, ld) ==
  LET r == EffectiveRise(tr)
      s == FinalSteps(tr, dr)
  IN  Geometry(r, s, <<r, s>>, dt, st, ld)

----------------------------------------------------------------------------
(* checkNorms, lines 77-89.  A message is <<check, argument>>: the number   *)
(* of the check (1..6, its line among 82..87) and the value the template    *)
(* string prints (0 for the fixed strings).                                 *)

\* Math.round(sum) for sum >= 0 given in tenths
RoundTenths(t) == (t + 5) \div 10

PushIf(w, cond, msg) == IF cond THEN Append(w, msg) ELSE w

\* mutant of checkNorms: check 3 as riser >= 200
checkNorms_AtLeast200(res) ==
  LET r == res.riser
      t == res.tread
      sum == 2 * r + t
      w1 == PushIf(<<>>, r < 1200, <<1, 0>>)
      w2 == PushIf(w1, r < 1500, <<2, 0>>)
      w3 == PushIf(w2, r >= 2000, <<3, 0>>)
      w4 == PushIf(w3, t < 2400, <<4, 0>>)
      w5 == PushIf(w4, sum < 5500 \/ sum > 7000, <<5, RoundTenths(sum)>>)
      w6 == PushIf(w5, res.angleDeg > 450, <<6, res.angleDeg>>)
  IN  w6

checkNorms(res) ==
  LET r == res.riser
      t == res.tread
      sum == 2 * r + t
      w1 == PushIf(<<>>, r < 1200, <<1, 0>>)
      w2 == PushIf(w1, r < 1500, <<2, 0>>)
      w3 == PushIf(w2, r > 2000, <<3, 0>>)
      w4 == PushIf(w3, t < 2400, <<4, 0>>)
      w5 == PushIf(w4, sum < 5500 \/ sum > 7000, <<5, RoundTenths(sum)>>)
      w6 == PushIf(w5, res.angleDeg > 450, <<6, res.angleDeg>>)
  IN  w6

----------------------------------------------------------------------------
(* One call of calculateStairs, statement by statement.  The arguments are  *)
(* the variables totalRise .. landingDepth; pc is the position in the       *)
(* function and result receives the returned record.                        *)

NoLocals == /\ rise = 0 /\ steps = 0 /\ riser = <<0, 1>>
            /\ ranA = FALSE /\ ranB = FALSE /\ tick = 0

NoApp == /\ warnings = <<>> /\ pdfs = 0 /\ exporting = 0 /\ alerts = 0

\* lines 56-61
Enter ==
  /\ pc = "call"
  /\ rise' = EffectiveRise(totalRise)
  /\ steps' = InitialSteps(rise', TargetRiser(desiredRiser))
  /\ riser' = <<rise', steps'>>
  /\ pc' = "loopA"
  /\ UNCHANGED <<totalRise, desiredRiser, desiredTread, stairType,
                 landingDepth, result, warnings, pdfs, exporting, alerts,
                 ranA, ranB, tick>>

\* line 62, one iteration
LoopAStep ==
  /\ pc = "loopA"
  /\ LoopACond(riser, steps)
  /\ steps' = LoopABody(steps)
  /\ riser' = <<rise, steps'>>
  /\ ranA' = TRUE
  /\ tick' = 1 - tick
  /\ UNCHANGED <<totalRise, desiredRiser, desiredTread, stairType,
                 landingDepth, result, warnings, pdfs, exporting, alerts,
                 pc, rise, ranB>>

\* line 62, the condition fails
LoopAExit ==
  /\ pc = "loopA"
  /\ ~LoopACond(riser, steps)
  /\ pc' = "loopB"
  /\ UNCHANGED <<totalRise, desiredRiser, desiredTread, stairType,
                 landingDepth, result, warnings, pdfs, exporting, alerts,
                 rise, steps, riser, ranA, ranB, tick>>

\* line 63, one iteration
LoopBStep ==
  /\ pc = "loopB"
  /\ LoopBCond(riser, steps)
  /\ steps' = LoopBBody(steps)
  /\ riser' = <<rise, steps'>>
  /\ ranB' = TRUE
  /\ tick' = 1 - tick
  /\ UNCHANGED <<totalRise, desiredRiser, desiredTread, stairType,
                 landingDepth, result, warnings, pdfs, exporting, alerts,
                 pc, rise, ranA>>

\* line 63, the condition fails
LoopBExit ==
  /\ pc = "loopB"
  /\ ~LoopBCond(riser, steps)
  /\ pc' = "tail"
  /\ UNCHANGED <<totalRise, desiredRiser, desiredTread, stairType,
                 landingDepth, result, warnings, pdfs, exporting, alerts,
                 rise, steps, riser, ranA, ranB, tick>>

\* lines 64-74
Return ==
  /\ pc = "tail"
  /\ result' = Geometry(rise, steps, riser, desiredTread, stairType,
                        landingDepth)
  /\ pc' = "done"
  /\ UNCHANGED <<totalRise, desiredRiser, desiredTread, stairType,
                 landingDepth, warnings, pdfs, exporting, alerts,
                 rise, steps, riser, ranA, ranB, tick>>

(* The arguments explored: every total rise of a dense range around the    *)
(* small step counts and of a range around 200 steps with the other         *)
(* arguments as the form starts, and a grid of all five arguments.          *)

HighRiseBase == 41850

DenseRises == (-2 .. MaxDenseRise)
                \cup (HighRiseBase .. HighRiseBase + HighRiseSpan)

DenseRisers == {Absent, Num(0), Num(-30), Num(100), Num(120), Num(170),
                Num(210), Num(300)}

DenseTreads == {Absent, Num(280)}

GridRises == {0, 5, 10, 150, 220, 239, 240, 1000, 2700, 45000}
GridRisers == {Absent, Num(170), Num(210)}
GridTreads == {Absent, Num(0), Num(-50), Num(100), Num(280), Num(450)}
GridLandings == {Absent, Num(0), Num(-100), Num(600), Num(900)}

InitCalc ==
  /\ \/ /\ totalRise \in DenseRises
        /\ desiredRiser \in DenseRisers
        /\ desiredTread \in DenseTreads
        /\ stairType = "straight"
        /\ landingDepth = Num(900)
     \/ /\ totalRise \in GridRises
        /\ desiredRiser \in GridRisers
        /\ desiredTread \in GridTreads
        /\ stairType \in StairTypes
        /\ landingDepth \in GridLandings
  /\ result = Null
  /\ pc = "call"
  /\ NoLocals
  /\ NoApp

NextCalc ==
  \/ Enter
  \/ LoopAStep
  \/ LoopAExit
  \/ LoopBStep
  \/ LoopBExit
  \/ Return

SpecCalc == InitCalc /\ [][NextCalc]_vars

----------------------------------------------------------------------------
(* checkNorms applied to a geometry record, lines 77-89.  The records       *)
(* explored are not only those calculateStairs returns.                     *)

SampleRisers == {1000, 1199, 1200, 1499, 1500, 1688, 2000, 2001, 2600}
SampleTreads == {1600, 2000, 2399, 2400, 2800, 3000, 4000}
SampleAngles == {311, 450, 451, 500}

InitNorms ==
  /\ \E r \in SampleRisers, t \in SampleTreads, a \in SampleAngles :
       result = [steps |-> 16, riser |-> r, tread |-> t,
                 totalRun |-> 16 * t, stringerLength |-> 16 * t,
                 angleDeg |-> a]
  /\ warnings = <<>>
  /\ pc = "norms"
  /\ totalRise = 0 /\ desiredRiser = Absent /\ desiredTread = Absent
  /\ stairType = "straight" /\ landingDepth = Absent
  /\ pdfs = 0 /\ exporting = 0 /\ alerts = 0
  /\ NoLocals

\* warnings = checkNorms(result)
CallCheckNorms ==
  /\ pc = "norms"
  /\ warnings' = checkNorms(result)
  /\ pc' = "checked"
  /\ UNCHANGED <<totalRise, desiredRiser, desiredTread, stairType,
                 landingDepth, result, pdfs, exporting, alerts,
                 rise, steps, riser, ranA, ranB, tick>>

NextNorms == CallCheckNorms

SpecNorms == InitNorms /\ [][NextNorms]_vars

----------------------------------------------------------------------------
(* The App component, lines 188-234 and the handlers of lines 253-264 and   *)
(* 301-302: the five form fields, result and warnings, compute and          *)
(* exportPDF.  exportPDF is async: it tests result and starts the capture   *)
(* in the click handler, and writes the PDF in a later task.                *)

TotalRiseTexts == {EmptyField, Text(220), Text(2700)}
DesiredRiserTexts == {EmptyField, Text(170)}
DesiredTreadTexts == {EmptyField, Text(280)}
LandingTexts == {EmptyField, Text(900)}

\* lines 189-201
InitApp ==
  /\ totalRise = Text(2700)
  /\ desiredRiser = Text(170)
  /\ desiredTread = Text(280)
  /\ stairType = "straight"
  /\ landingDepth = Text(900)
  /\ result = Null
  /\ warnings = <<>>
  /\ pdfs = 0 /\ exporting = 0 /\ alerts = 0
  /\ pc = "idle"
  /\ NoLocals

AppIdle == UNCHANGED <<pc, rise, steps, riser, ranA, ranB, tick>>

\* line 253, onChange
SetTotalRise ==
  /\ \E v \in TotalRiseTexts : totalRise' = v
  /\ AppIdle
  /\ UNCHANGED <<desiredRiser, desiredTread, stairType, landingDepth,
                 result, warnings, pdfs, exporting, alerts>>

\* line 254, onChange
SetDesiredRiser ==
  /\ \E v \in DesiredRiserTexts : desiredRiser' = v
  /\ AppIdle
  /\ UNCHANGED <<totalRise, desiredTread, stairType, landingDepth,
                 result, warnings, pdfs, exporting, alerts>>

\* line 255, onChange
SetDesiredTread ==
  /\ \E v \in DesiredTreadTexts : desiredTread' = v
  /\ AppIdle
  /\ UNCHANGED <<totalRise, desiredRiser, stairType, landingDepth,
                 result, warnings, pdfs, exporting, alerts>>

\* line 257, onChange
SetStairType ==
  /\ \E v \in StairTypes : stairType' = v
  /\ AppIdle
  /\ UNCHANGED <<totalRise, desiredRiser, desiredTread, landingDepth,
                 result, warnings, pdfs, exporting, alerts>>

\* line 264, onChange: the field is rendered for the types l and u only
SetLandingDepth ==
  /\ stairType = "l" \/ stairType = "u"
  /\ \E v \in LandingTexts : landingDepth' = v
  /\ AppIdle
  /\ UNCHANGED <<totalRise, desiredRiser, desiredTread, stairType,
                 result, warnings, pdfs, exporting, alerts>>

\* line 214, the call
ComputedResult ==
  calculateStairs(ToNumber(totalRise), Num(ToNumber(desiredRiser)),
                  Num(ToNumber(desiredTread)), stairType,
                  Num(ToNumber(landingDepth)))

\* mutant of Compute: the warnings computed from the previous result
Compute_StaleWarnings ==
  /\ result' = ComputedResult
  /\ warnings' = (IF result = Null THEN <<>> ELSE checkNorms(result))
  /\ AppIdle
  /\ UNCHANGED <<totalRise, desiredRiser, desiredTread, stairType,
                 landingDepth, pdfs, exporting, alerts>>

\* lines 213-217
Compute ==
  /\ result' = ComputedResult
  /\ warnings' = checkNorms(result')
  /\ AppIdle
  /\ UNCHANGED <<totalRise, desiredRiser, desiredTread, stairType,
                 landingDepth, pdfs, exporting, alerts>>

\* lines 219-223: the click handler up to the first await
ExportPDF ==
  /\ IF result = Null
     THEN /\ alerts < MaxExports
          /\ alerts' = alerts + 1
          /\ UNCHANGED exporting
     ELSE /\ pdfs + exporting < MaxExports
          /\ exporting' = exporting + 1
          /\ UNCHANGED alerts
  /\ AppIdle
  /\ UNCHANGED <<totalRise, desiredRiser, desiredTread, stairType,
                 landingDepth, result, warnings, pdfs>>

\* lines 224-233: the rest of exportPDF, after the await
ExportFinish ==
  /\ exporting > 0
  /\ exporting' = exporting - 1
  /\ pdfs' = pdfs + 1
  /\ AppIdle
  /\ UNCHANGED <<totalRise, desiredRiser, desiredTread, stairType,
                 landingDepth, result, warnings, alerts>>

NextApp ==
  \/ SetTotalRise
  \/ SetDesiredRiser
  \/ SetDesiredTread
  \/ SetStairType
  \/ SetLandingDepth
  \/ Compute
  \/ ExportPDF
  \/ ExportFinish

Spec == InitApp /\ [][NextApp]_vars

----------------------------------------------------------------------------
(* Lines 56-63 for a total rise of any magnitude, in binary64.  A whole     *)
(* number of any size is a sequence of limbs, least significant first,      *)
(* without leading zero limbs; every binary64 operation of the lines is     *)
(* the exact result rounded to 53 significant bits, ties to even.           *)

LimbBits == 14
LimbBase == 16384
Significand == 53

\* The arithmetic is written as functions, so that an argument is a value
\* when the function is applied.
Big == Seq(Nat)

BigOf[n \in Nat] ==
  IF n = 0 THEN <<>> ELSE <<n % LimbBase>> \o BigOf[n \div LimbBase]

Trim[a \in Big] ==
  IF a # <<>> /\ a[Len(a)] = 0 THEN Trim[SubSeq(a, 1, Len(a) - 1)] ELSE a

BigLessFrom[a \in Big, b \in Big, i \in Nat] ==
  IF i = 0 THEN FALSE
  ELSE IF a[i] # b[i] THEN a[i] < b[i]
  ELSE BigLessFrom[a, b, i - 1]

BigLess[a \in Big, b \in Big] ==
  IF Len(a) # Len(b) THEN Len(a) < Len(b) ELSE BigLessFrom[a, b, Len(a)]

\* a + b + carry, the limbs below i being done
BigAddFrom[a \in Big, b \in Big, i \in Nat, carry \in Nat] ==
  IF i > Len(a) /\ i > Len(b) THEN BigOf[carry]
  ELSE LET v == (IF i <= Len(a) THEN a[i] ELSE 0)
                + (IF i <= Len(b) THEN b[i] ELSE 0) + carry
       IN  <<v % LimbBase>> \o BigAddFrom[a, b, i + 1, v \div LimbBase]

BigAdd[a \in Big, b \in Big] == BigAddFrom[a, b, 1, 0]

BigSucc[a \in Big] == BigAdd[a, <<1>>]

\* a - 1, for a > 0
BigPred[a \in Big] ==
  IF a[1] > 0 THEN Trim[[a EXCEPT ![1] = a[1] - 1]]
  ELSE <<LimbBase - 1>> \o BigPred[Tail(a)]

\* a * k for a small factor k (at most 2^16)
BigTimesFrom[a \in Big, k \in Nat, i \in Nat, carry \in Nat] ==
  IF i > Len(a) THEN BigOf[carry]
  ELSE LET v == a[i] * k + carry
       IN  <<v % LimbBase>> \o BigTimesFrom[a, k, i + 1, v \div LimbBase]

BigTimes[a \in Big, k \in Nat] == Trim[BigTimesFrom[a, k, 1, 0]]

ShiftLimbs[a \in Big, n \in Nat] ==
  IF a = <<>> THEN <<>> ELSE [i \in 1 .. n |-> 0] \o a

BigMulFrom[a \in Big, b \in Big, i \in Nat] ==
  IF i > Len(b) THEN <<>>
  ELSE BigAdd[ShiftLimbs[BigTimes[a, b[i]], i - 1], BigMulFrom[a, b, i + 1]]

BigMul[a \in Big, b \in Big] == BigMulFrom[a, b, 1]

\* <<quotient, remainder>> of a by a small divisor d (at most 2^16): the
\* limbs above i are done, with quotient limbs q and remainder rem
BigDivFrom[a \in Big, d \in Nat, i \in Nat, q \in Big, rem \in Nat] ==
  IF i = 0 THEN <<Trim[q], rem>>
  ELSE BigDivFrom[a, d, i - 1, <<(rem * LimbBase + a[i]) \div d>> \o q,
                  (rem * LimbBase + a[i]) % d]

BigQuot[a \in Big, d \in Nat] == BigDivFrom[a, d, Len(a), <<>>, 0][1]
BigRem[a \in Big, d \in Nat] == BigDivFrom[a, d, Len(a), <<>>, 0][2]

BitLen[n \in Nat] == IF n = 0 THEN 0 ELSE 1 + BitLen[n \div 2]

BigBits[a \in Big] ==
  IF a = <<>> THEN 0 ELSE LimbBits * (Len(a) - 1) + BitLen[a[Len(a)]]

\* a * 2^k
BigShl[a \in Big, k \in Nat] ==
  ShiftLimbs[BigTimes[a, Pow2(k % LimbBits)], k \div LimbBits]

\* floor(a / 2^k)
BigShr[a \in Big, k \in Nat] ==
  IF k \div LimbBits >= Len(a) THEN <<>>
  ELSE BigQuot[SubSeq(a, k \div LimbBits + 1, Len(a)), Pow2(k % LimbBits)]

BigOdd[a \in Big] == a # <<>> /\ a[1] % 2 = 1

\* The number of bits of the integer part of r / t (zero or negative when
\* r / t < 1): the binary exponent of the quotient, plus one.
QuotBits[r \in Big, t \in Nat] ==
  LET l0 == BigBits[r] - BitLen[t]
  IN  IF l0 >= 0
      THEN (IF BigLess[r, BigShl[BigOf[t], l0]] THEN l0 ELSE l0 + 1)
      ELSE (IF BigLess[BigShl[r, 0 - l0], BigOf[t]] THEN l0 ELSE l0 + 1)

\* r * 2^s / t rounded to the nearest whole number, ties to even (s >= 0)
ScaledUp[r \in Big, t \in Nat, s \in Nat] ==
  LET q == BigQuot[BigShl[r, s], t]
      rem == BigRem[BigShl[r, s], t]
  IN  IF 2 * rem > t \/ (2 * rem = t /\ BigOdd[q]) THEN BigSucc[q] ELSE q

\* r / (t * 2^k) rounded to the nearest whole number, ties to even (k > 0)
ScaledDown[r \in Big, t \in Nat, k \in Nat] ==
  LET whole == BigQuot[r, t]
      q == BigShr[whole, k]
      halfBit == BigOdd[BigShr[whole, k - 1]]
      sticky == BigRem[r, t] # 0
                \/ BigShl[BigShr[whole, k - 1], k - 1] # whole
  IN  IF halfBit /\ (sticky \/ BigOdd[q]) THEN BigSucc[q] ELSE q

\* The binary64 quotient r / t of a positive whole r by a small whole t:
\* the pair <<q, s>> standing for q / 2^s (q * 2^-s when s < 0), q the
\* exact quotient scaled to 53 bits and rounded to nearest, ties to even.
FDiv[r \in Big, t \in Nat] ==
  LET s == Significand - QuotBits[r, t]
  IN  IF s >= 0 THEN <<ScaledUp[r, t, s], s>>
      ELSE <<ScaledDown[r, t, 0 - s], s>>

\* Math.round of a positive binary64 <<q, s>>: floor(x + 1/2), exactly
FRound[q \in Big, s \in Int] ==
  IF s <= 0 THEN BigShl[q, 0 - s]
  ELSE BigShr[BigAdd[q, BigShl[<<1>>, s - 1]], s]

\* The binary64 difference s - 1 of a whole s >= 1.  Up to 2^53 it is exact.
\* Above, s = m * 2^e with m of 53 bits: for e = 1 the difference lies
\* halfway between s - 2 and s and goes to the one with the even m; for
\* e >= 2 the nearest binary64 is s itself.
FMinusOne[s \in Big] ==
  LET e == BigBits[s] - Significand
  IN  IF e <= 0 \/ s = BigShl[<<1>>, Significand] THEN BigPred[s]
      ELSE IF e = 1 /\ BigOdd[BigShr[s, 1]] THEN BigPred[BigPred[s]]
      ELSE s

\* riser > 210 for riser the binary64 quotient r / s.  210 is a binary64
\* with an even significand and the next binary64 is 210 + 2^-45, so the
\* quotient rounds above 210 exactly when r / s > 210 + 2^-46.
WideAbove[r \in Big, s \in Big] ==
  BigLess[BigMul[s, BigSucc[BigShl[BigOf[MaxRiser], 46]]], BigShl[r, 46]]

\* riser < 120: 120 has an even significand and the binary64 before it is
\* 120 - 2^-46, so the quotient rounds below 120 exactly when
\* r / s < 120 - 2^-47.
WideBelow[r \in Big, s \in Big] ==
  BigLess[BigShl[r, 47], BigMul[s, BigPred[BigShl[BigOf[MinRiser], 47]]]]

\* line 56
WideRise[tr \in Big] ==
  IF BigLess[tr, BigOf[MinRise]] THEN BigOf[MinRise] ELSE tr

\* lines 59-60
WideInitialSteps[r \in Big, target \in Nat] ==
  LET x == FDiv[r, target]
      n == FRound[x[1], x[2]]
  IN  IF n = <<>> THEN <<1>> ELSE n

WideLoopACond[r \in Big, s \in Big] ==
  WideAbove[r, s] /\ BigLess[s, BigOf[MaxSteps]]

WideLoopBCond[r \in Big, s \in Big] ==
  WideBelow[r, s] /\ BigLess[<<1>>, s]

WideExponents == {0, 20, 45, 60}
WideRisers == {Absent, Num(100), Num(120), Num(210)}

\* The call and lines 56-61.  The total rise passed is a whole number
\* m * 2^e: a small one (e = 0) or one beyond 2^53.
EnterWide ==
  /\ pc = "call"
  /\ \E m \in 1 .. MaxMantissa, e \in WideExponents :
       totalRise' = BigShl[BigOf[m], e]
  /\ desiredRiser' \in WideRisers
  /\ rise' = WideRise[totalRise']
  /\ steps' = WideInitialSteps[rise', TargetRiser(desiredRiser')]
  /\ riser' = <<rise', steps'>>
  /\ pc' = "loopA"
  /\ UNCHANGED <<desiredTread, stairType, landingDepth, result, warnings,
                 pdfs, exporting, alerts, ranA, ranB, tick>>

\* line 62, one iteration: steps < 200, so steps + 1 is exact
LoopAStepWide ==
  /\ pc = "loopA"
  /\ WideLoopACond[rise, steps]
  /\ steps' = BigSucc[steps]
  /\ riser' = <<rise, steps'>>
  /\ ranA' = TRUE
  /\ tick' = 1 - tick
  /\ UNCHANGED <<totalRise, desiredRiser, desiredTread, stairType,
                 landingDepth, result, warnings, pdfs, exporting, alerts,
                 pc, rise, ranB>>

\* line 62, the condition fails
LoopAExitWide ==
  /\ pc = "loopA"
  /\ ~WideLoopACond[rise, steps]
  /\ pc' = "loopB"
  /\ UNCHANGED <<totalRise, desiredRiser, desiredTread, stairType,
                 landingDepth, result, warnings, pdfs, exporting, alerts,
                 rise, steps, riser, ranA, ranB, tick>>

\* line 63, one iteration
LoopBStepWide ==
  /\ pc = "loopB"
  /\ WideLoopBCond[rise, steps]
  /\ steps' = FMinusOne[steps]
  /\ riser' = <<rise, steps'>>
  /\ ranB' = TRUE
  /\ tick' = 1 - tick
  /\ UNCHANGED <<totalRise, desiredRiser, desiredTread, stairType,
                 landingDepth, result, warnings, pdfs, exporting, alerts,
                 pc, rise, ranA>>

\* line 63, the condition fails: line 64 is reached
LoopBExitWide ==
  /\ pc = "loopB"
  /\ ~WideLoopBCond[rise, steps]
  /\ pc' = "tail"
  /\ UNCHANGED <<totalRise, desiredRiser, desiredTread, stairType,
                 landingDepth, result, warnings, pdfs, exporting, alerts,
                 rise, steps, riser, ranA, ranB, tick>>

\* before the call
InitWide ==
  /\ totalRise = <<>>
  /\ desiredRiser = Absent
  /\ desiredTread = Absent
  /\ stairType = "straight"
  /\ landingDepth = Absent
  /\ result = Null
  /\ pc = "call"
  /\ rise = <<>> /\ steps = <<>> /\ riser = <<<<>>, <<1>>>>
  /\ ranA = FALSE /\ ranB = FALSE /\ tick = 0
  /\ NoApp

NextWide ==
  \/ EnterWide
  \/ LoopAStepWide
  \/ LoopAExitWide
  \/ LoopBStepWide
  \/ LoopBExitWide

\* The engine runs the call to its end: a step that can be taken is taken.
SpecWide == InitWide /\ [][NextWide]_vars /\ WF_vars(NextWide)

----------------------------------------------------------------------------
(* Properties of calculateStairs, checked under SpecCalc *)

Done == pc = "done"

\* some step count n in 1..200 puts totalRise / n in [120, 210]
Achievable(tr) == \E n \in 1 .. 200 : 120 * n <= tr /\ tr <= 210 * n

AllRises == DenseRises \cup GridRises

\* the step count returned for every explored total rise and desired riser
StepsOf == [dr \in DenseRisers |-> [tr \in AllRises |-> FinalSteps(tr, dr)]]

Abs(n) == IF n < 0 THEN -n ELSE n

\* C1: for totalRise >= 10 the returned steps is at least 1, and the
\* pre-rounding riser totalRise / steps lies in [120, 210] whenever some step
\* count in 1..200 puts it there.
C1_RiserInBand ==
  (Done /\ totalRise >= 10) =>
     /\ result.steps >= 1
     /\ Achievable(totalRise) =>
          /\ 120 * result.steps <= totalRise
          /\ totalRise <= 210 * result.steps

\* loop A had to raise the step count to 200 to reach the band
C1_Witness ==
  /\ Done /\ totalRise >= 10 /\ Achievable(totalRise)
  /\ ranA /\ result.steps = 200

\* C2: the returned tread is within [160, 400], and within [160, 240] for a
\* spiral stair whatever tread is desired.
C2_TreadRange ==
  Done =>
     /\ 1600 <= result.tread /\ result.tread <= 4000
     /\ stairType = "spiral" => result.tread <= 2400

\* a spiral stair for which a tread of 450 was desired
C2_Witness ==
  /\ Done /\ stairType = "spiral" /\ desiredTread = Num(450)
  /\ result.tread = 2400

\* C4: the total run is tread * steps for the types straight and spiral and
\* tread * steps + L for the types l and u, L being landingDepth when it is a
\* positive number and 900 otherwise; steps, riser and tread are the same
\* for every landingDepth; (2700, 170, 280, 'l', 900) gives 5380.
C4_TotalRun ==
  Done =>
    LET t == Tread(riser, desiredTread, stairType)
        L == IF landingDepth # Absent /\ landingDepth[1] > 0
             THEN landingDepth[1] ELSE 900
        extra == IF stairType \in {"l", "u"} THEN L ELSE 0
    IN  /\ result.totalRun * t[2] = 10 * (t[1] * result.steps + extra * t[2])
        /\ \A ld \in GridLandings :
             LET o == calculateStairs(totalRise, desiredRiser, desiredTread,
                                      stairType, ld)
             IN  /\ o.steps = result.steps
                 /\ o.riser = result.riser
                 /\ o.tread = result.tread
        /\ ( /\ totalRise = 2700 /\ desiredRiser = Num(170)
             /\ desiredTread = Num(280) /\ stairType = "l"
             /\ landingDepth = Num(900) )
           => /\ result.totalRun = 53800
              /\ result.steps = 16 /\ result.riser = 1688
              /\ result.tread = 2800

\* a u-shaped stair with a negative landing depth: 900 was added
C4_Witness ==
  /\ Done /\ stairType = "u" /\ landingDepth = Num(-100)
  /\ desiredTread = Num(280)
  /\ result.totalRun = 2800 * result.steps + 9000

\* C5: of two calls that differ only in totalRise, the one with the larger
\* totalRise returns at least as many steps.
C5_Monotone ==
  Done =>
    LET row == StepsOf[desiredRiser]
    IN  \A tr \in AllRises :
           /\ tr <= totalRise => row[tr] <= result.steps
           /\ tr >= totalRise => row[tr] >= result.steps

\* a call whose step count both loops could have moved, with a smaller and a
\* larger step count among the explored calls
C5_Witness ==
  /\ Done /\ ranB
  /\ \E a, b \in AllRises :
       /\ a < totalRise /\ totalRise < b
       /\ StepsOf[desiredRiser][a] < result.steps
       /\ result.steps < StepsOf[desiredRiser][b]

\* the squares, in tenths, of the returned totalRun and of a rise r
SumOfSquares(r) == DAdd(DSquare(result.totalRun), DSquare(10 * Abs(r)))

\* stringerLength^2 = totalRun^2 + r^2 up to the rounding of stringerLength
\* and totalRun to one decimal place
Pythagoras(r) ==
  /\ DLeq(DSquare(result.stringerLength - 1), SumOfSquares(r))
  /\ DLeq(SumOfSquares(r), DSquare(result.stringerLength + 1))

\* C6 as claimed: the rise under the root is the caller's totalRise, also
\* below 10.
C6_Original == Done => Pythagoras(totalRise)

\* C6 as amended: the rise under the root is max(10, totalRise).
C6_Stringer == Done => Pythagoras(Max(10, totalRise))

\* a call with totalRise below 10
C6_Witness == Done /\ totalRise < 10 /\ result.stringerLength > result.totalRun

\* C8 as claimed: in no call does loop A increment steps and loop B then
\* decrement it.
C8_Original == ~(ranA /\ ranB)

\* C8 as amended: loop A and loop B both change steps only when the
\* effective rise is strictly between 210 and 240 (loop A takes steps from 1
\* to 2 and loop B back to 1).
C8_Exclusive ==
  (ranA /\ ranB) => (210 < rise /\ rise < 240 /\ (Done => result.steps = 1))

\* a call in which loop A incremented steps and loop B decremented it
C8_Witness == Done /\ ranA /\ ranB /\ rise = 220 /\ result.steps = 1

\* C10: with no desired tread (absent or 0), a type other than spiral and
\* the pre-rounding riser in [120, 210], the tread is 600 - 2 * riser,
\* unclamped, 2 * riser + tread is 600 up to the rounding, and checkNorms
\* does not emit the Blondel warning (check 5).
C10_RuleTread ==
  ( /\ Done
    /\ desiredTread \in {Absent, Num(0)}
    /\ stairType # "spiral"
    /\ 120 * steps <= rise /\ rise <= 210 * steps )
  => /\ 2 * Abs(10 * (600 * steps - 2 * rise) - result.tread * steps) <= steps
     /\ Abs(2 * result.riser + result.tread - 6000) <= 1
     /\ \A i \in DOMAIN checkNorms(result) : checkNorms(result)[i][1] # 5

\* such a call whose riser and tread are not whole millimetres
C10_Witness ==
  /\ Done /\ desiredTread = Absent /\ stairType = "l"
  /\ 120 * steps <= rise /\ rise <= 210 * steps
  /\ result.tread % 10 # 0

----------------------------------------------------------------------------
(* Properties of checkNorms, checked under SpecNorms *)

\* the condition of check k, as the claim lists them
Fires(k, g) ==
  CASE k = 1 -> g.riser < 1200
    [] k = 2 -> g.riser < 1500
    [] k = 3 -> g.riser > 2000
    [] k = 4 -> g.tread < 2400
    [] k = 5 -> 2 * g.riser + g.tread < 5500 \/ 2 * g.riser + g.tread > 7000
    [] k = 6 -> g.angleDeg > 450

\* C3: checkNorms returns the messages of exactly the checks whose condition
\* holds, in the order 1..6 without duplicates (so none when none holds);
\* riser 100, tread 200, angle 50 gives the checks 1, 2, 4, 5, 6.
C3_Warnings ==
  pc = "checked" =>
    /\ \A k \in 1 .. 6 :
         Fires(k, result) <=> \E i \in DOMAIN warnings : warnings[i][1] = k
    /\ \A i, j \in DOMAIN warnings : i < j => warnings[i][1] < warnings[j][1]
    /\ (\A k \in 1 .. 6 : ~Fires(k, result)) => warnings = <<>>
    /\ (result.riser = 1000 /\ result.tread = 2000 /\ result.angleDeg = 500)
         => [i \in DOMAIN warnings |-> warnings[i][1]] = <<1, 2, 4, 5, 6>>

\* the geometry of the example, with its five warnings
C3_Witness ==
  /\ pc = "checked"
  /\ result.riser = 1000 /\ result.tread = 2000 /\ result.angleDeg = 500
  /\ Len(warnings) = 5

----------------------------------------------------------------------------
(* Properties of the App component, checked under Spec *)

\* C9: the displayed warnings are checkNorms of the displayed result and are
\* empty while result is null; no PDF is produced or in the making while
\* result is null; and a step that changes result or warnings is compute,
\* setting both from one calculateStairs output.
C9_WarningsMatch ==
  /\ [](/\ warnings = IF result = Null THEN <<>> ELSE checkNorms(result)
        /\ result = Null => (pdfs = 0 /\ exporting = 0))
  /\ [][(result' # result \/ warnings' # warnings)
          => /\ result' = ComputedResult
             /\ warnings' = checkNorms(ComputedResult)]_vars

\* after an export refused for lack of a result, a computation that warns,
\* and an export of it
C9_Witness ==
  /\ alerts > 0 /\ pdfs > 0
  /\ result # Null /\ Len(warnings) > 0

----------------------------------------------------------------------------
(* Termination of calculateStairs, checked under SpecWide *)

\* C7: every call of calculateStairs terminates: the loops of lines 62 and
\* 63 exit after finitely many iterations and line 64 is reached.
C7_Terminates == <>(pc = "tail")

\* A call stuck in the loop of line 63: the condition holds and the
\* iteration has left steps as it was.
C7_Witness ==
  /\ pc = "loopB"
  /\ ranB
  /\ WideLoopBCond[rise, steps]
  /\ FMinusOne[steps] = steps

============================================================================
